---- MODULE Spec2Model ----
(***************************************************************************)
(* The FX graph minifier of functorch/_src/fx_minifier.py.                 *)
(*                                                                         *)
(* A graph is the sequence of its nodes in node order.  A node is a record *)
(*   id   : its identity (node.name), kept by every copy of the node;      *)
(*   op   : "placeholder", "call" (any operation node) or "output";        *)
(*   args : the set of ids of its operands;                                *)
(*   result : what running the node gives: "tensor" (a torch.Tensor),      *)
(*          "composite" (an aggregate that holds a tensor) or "other" (a   *)
(*          value without any tensor);                                     *)
(*   val  : meta['concrete_value']: "none" while the key is not written,   *)
(*          else the result that ConcreteProp recorded.                    *)
(* An input list is a sequence of values: the value recorded for node i is *)
(* written i (the value of an original placeholder is the matching input), *)
(* and torch.zeros(()) is written Zero.                                    *)
(***************************************************************************)
EXTENDS Integers, Sequences, FiniteSets, TLC

\* Bounds of the model.
MaxNodes == 3      \* non-output nodes of the original graph
MaxArgs == 2       \* operands of one operation node of the original graph
MaxOutputs == 1    \* operands of the output node of the original graph
MaxNeed == 2       \* nodes the failure predicate depends on
MaxFlaky == 3      \* query numbers at which a flaky predicate may lie
ChainNodes == 10   \* nodes of the longest linear chain graph
WideNodes == 16    \* nodes of the graph that fails because of three nodes
PassCap == MaxNodes + 4   \* passes after which the model stops counting

Zero == 0
OutId == 0         \* the id of an output node
NoState == [graph |-> <<>>, inps |-> <<>>]

VARIABLES
    pc,             \* "start", "loop", "done" (returned) or "error" (raised)
    fail_f,         \* the original graph, annotated by ConcreteProp
    inps,           \* the inps argument of minifier
    module_fails,   \* the failure predicate: [needOp, needAny, flaky]
    failing_state,  \* the driver's accepted ReproState
    num_queries,    \* calls of graph_fails so far
    strategy_idx,   \* position in the strategies list of the next strategy
    any_succeeded,  \* the flag of the current pass
    passes,         \* passes over the strategies list started so far
    returned,       \* the pair minifier returned (NoState before)
    error,          \* the exception minifier raised ("" before)
    last            \* the last strategy invocation: its name, the state it
                    \* was given, its outcome and the pairs it passed to
                    \* graph_fails

vars == <<pc, fail_f, inps, module_fails, failing_state, num_queries,
          strategy_idx, any_succeeded, passes, returned, error, last>>

(***************************************************************************)
(* Graph substrate (torch.fx.Graph)                                        *)
(***************************************************************************)
Ids(g) == {g[i].id : i \in DOMAIN g}

Pos(g, id) == CHOOSE i \in DOMAIN g : g[i].id = id

RECURSIVE RemoveAt(_, _)
RemoveAt(s, i) ==
    IF i = 1 THEN Tail(s) ELSE <<Head(s)>> \o RemoveAt(Tail(s), i - 1)

\* node.users: the nodes that have the node among their operands, in the
\* order in which they were added to the graph.
users(g, id) ==
    LET us == SelectSeq(g, LAMBDA n : id \in n.args)
    IN  [i \in DOMAIN us |-> us[i].id]

\* Graph.lint: no two nodes share an identity, there is one output node, and
\* every operand is a node of the graph that comes earlier in node order.
lint(g) ==
    /\ \A i, j \in DOMAIN g : g[i].id = g[j].id => i = j
    /\ Cardinality({i \in DOMAIN g : g[i].op = "output"}) = 1
    /\ \A i \in DOMAIN g : \A a \in g[i].args :
           \E j \in 1..(i - 1) : g[j].id = a

\* Graph.output(args): a new output node.
output(args) ==
    [id |-> OutId, op |-> "output", args |-> args, result |-> "other", val |-> "none"]

\* Graph.eliminate_dead_code: walks the nodes in reverse and erases every
\* operation node without users.
RECURSIVE dce_from(_, _)
dce_from(g, i) ==
    IF i = 0 THEN g
    ELSE IF g[i].op = "call" /\ Len(users(g, g[i].id)) = 0
         THEN dce_from(RemoveAt(g, i), i - 1)
         ELSE dce_from(g, i - 1)

graph_eliminate_dead_code(g) == dce_from(g, Len(g))

(***************************************************************************)
(* The failure predicate and graph_fails                                   *)
(***************************************************************************)
CallIds(g) == {g[i].id : i \in {j \in DOMAIN g : g[j].op = "call"}}

\* What a deterministic predicate answers for a module built from graph g:
\* it fails when the nodes of needOp are all there as operation nodes and the
\* nodes of needAny are all there.
Reproduces(mf, g) == mf.needOp \subseteq CallIds(g) /\ mf.needAny \subseteq Ids(g)

\* module_fails(mod, inps) at the q-th query: a flaky predicate inverts its
\* answer at the query numbers of mf.flaky.
ModuleFails(mf, g, q) == Reproduces(mf, g) # (q \in mf.flaky)

\* One call of graph_fails: the pair handed over, whether lint accepted the
\* graph (lint raises otherwise), and the answer.
Query(mf, g, is, q) ==
    [graph |-> g, inps |-> is, valid |-> lint(g),
     verdict |-> lint(g) /\ ModuleFails(mf, g, q)]

(***************************************************************************)
(* Surgery primitives                                                      *)
(***************************************************************************)
_get_placeholders(g) == SelectSeq(g, LAMBDA n : n.op = "placeholder")

\* _convert_node_to_placeholder(node, inps), in place on st.graph and
\* st.inps.  st.err is set when node.meta['concrete_value'] raises KeyError;
\* nothing runs after that.
RECURSIVE _convert_node_to_placeholder(_, _), convert_users(_, _)
_convert_node_to_placeholder(st, id) ==
    LET i == Pos(st.graph, id)
        node == st.graph[i]
        g1 == [st.graph EXCEPT ![i] = [@ EXCEPT !.op = "placeholder", !.args = {}]]
    IN  IF st.err \/ node.op = "output" THEN st
        ELSE IF node.val = "none" THEN [st EXCEPT !.graph = g1, !.err = TRUE]
        ELSE IF node.val = "tensor"
             THEN [st EXCEPT !.graph = g1, !.inps = Append(@, id)]
             ELSE convert_users([st EXCEPT !.graph = g1, !.inps = Append(@, Zero)],
                                users(g1, id))

\* for tuple_user in list(node.users): the list is taken before the loop.
convert_users(st, us) ==
    IF us = <<>> THEN st
    ELSE convert_users(_convert_node_to_placeholder(st, Head(us)), Tail(us))

\* A faulty variant: the two loops of _consolidate_placeholders swapped.
consolidate_operations_first(g) ==
    SelectSeq(g, LAMBDA n : n.op # "placeholder")
        \o SelectSeq(g, LAMBDA n : n.op = "placeholder")

\* _consolidate_placeholders: the placeholders in their order, then the
\* other nodes in their order.
_consolidate_placeholders(g) ==
    SelectSeq(g, LAMBDA n : n.op = "placeholder")
        \o SelectSeq(g, LAMBDA n : n.op # "placeholder")

(***************************************************************************)
(* Strategies.  Each takes the failure predicate, its private copy of the  *)
(* graph and of the input list, and the number q of queries made so far,   *)
(* and gives                                                               *)
(*   tag   : "state" (a ReproState), "none" (None) or "raise";             *)
(*   graph, inps : the ReproState returned;                                *)
(*   log   : the calls of graph_fails it made, in order;                   *)
(*   err   : the exception raised;                                         *)
(*   trace : the values its loop variables took: an event [gap, idx] with  *)
(*           idx = -1 when an iteration of "while gap >= 1" begins, and    *)
(*           one with the node index (the window start) for each call of   *)
(*           graph_fails it made;                                          *)
(*   work  : what the objects it was given (cur_graph, cur_inps) hold when *)
(*           it ends.                                                      *)
(***************************************************************************)
Result(tag, g, is, log, err) ==
    [tag |-> tag, graph |-> g, inps |-> is, log |-> log, err |-> err,
     trace |-> <<>>, work |-> NoState]

Event(gap, idx) == [gap |-> gap, idx |-> idx]

\* The trace extended by the event of a new while iteration, when idx is the
\* first index of the iteration.
Entered(trace, gap, idx) ==
    IF idx = 0 THEN Append(trace, Event(gap, -1)) ELSE trace

RECURSIVE FloorLog2(_)
FloorLog2(n) == IF n <= 1 THEN 0 ELSE 1 + FloorLog2(n \div 2)

RECURSIVE Pow2(_)
Pow2(e) == IF e <= 0 THEN 1 ELSE 2 * Pow2(e - 1)

Min(a, b) == IF a <= b THEN a ELSE b

\* A faulty variant: the exponent is not lowered by one.
suffix_gap_full(n) == Pow2(FloorLog2(n))

\* gap = max(2**(floor(log2(len(nodes))) - 1), 1): 2**-1 is 0.5.
suffix_gap(n) == IF FloorLog2(n) = 0 THEN 1 ELSE Pow2(FloorLog2(n) - 1)

\* A faulty variant: the set of tested indices is not consulted.
untested_ignored(idx, tested) == TRUE

\* Line 141: idx not in tested.
untested(idx, tested) == idx \notin tested

\* A faulty variant: a candidate of the same size is taken too.
not_larger(new_graph, cur_graph) == Len(new_graph) <= Len(cur_graph)

\* Line 143: len(new_graph.nodes) < len(cur_graph.nodes).
strictly_smaller(new_graph, cur_graph) == Len(new_graph) < Len(cur_graph)

\* The loops of remove_suffix from (gap, idx) on; idx counts from 0.
RECURSIVE suffix_scan(_, _, _, _, _, _, _)
suffix_scan(mf, g, is, q, gap, idx, acc) ==
    IF gap < 1 THEN [Result("none", <<>>, <<>>, acc.log, "") EXCEPT !.trace = acc.trace]
    ELSE IF idx >= Len(g) THEN suffix_scan(mf, g, is, q, gap \div 2, 0, acc)
    ELSE LET node == g[idx + 1]
             trace == Entered(acc.trace, gap, idx)
         IN
         IF node.op = "call" /\ idx % gap = 0 /\ untested(idx, acc.tested)
         THEN LET new_graph == SubSeq(g, 1, idx + 1) \o <<output({node.id})>>
                  qr == Query(mf, new_graph, is, q + Len(acc.log) + 1)
                  log == Append(acc.log, qr)
                  visited == Append(trace, Event(gap, idx))
              IN  IF ~qr.valid
                  THEN [Result("raise", <<>>, <<>>, log, "lint") EXCEPT !.trace = visited]
                  ELSE IF qr.verdict /\ strictly_smaller(new_graph, g)
                       THEN [Result("state", new_graph, is, log, "")
                                EXCEPT !.trace = visited]
                       ELSE suffix_scan(mf, g, is, q, gap, idx + 1,
                                [tested |-> acc.tested \cup {idx}, log |-> log,
                                 trace |-> visited])
         ELSE suffix_scan(mf, g, is, q, gap, idx + 1, [acc EXCEPT !.trace = trace])

\* remove_suffix builds every candidate in a new graph: cur_graph and
\* cur_inps are left as they were given.
remove_suffix(mf, g, is, q) ==
    [suffix_scan(mf, g, is, q, suffix_gap(Len(g)), 0,
                 [tested |-> {}, log |-> <<>>, trace |-> <<>>])
        EXCEPT !.work = [graph |-> g, inps |-> is]]

\* A faulty variant: as many inputs as placeholders are kept, taken from
\* the front of the list.
kept_inps_prefix(g, ph, is) ==
    SubSeq(is, 1, Len(SelectSeq(ph, LAMBDA n : Len(users(g, n.id)) > 0)))

\* Lines 158-163: the inputs of the placeholders that have users, in order.
RECURSIVE kept_inps(_, _, _)
kept_inps(g, ph, is) ==
    IF ph = <<>> THEN <<>>
    ELSE (IF Len(users(g, Head(ph).id)) = 0 THEN <<>> ELSE <<Head(is)>>)
             \o kept_inps(g, Tail(ph), Tail(is))

\* erase_node works on cur_graph itself; the kept inputs go to a new list.
remove_unused_inputs(mf, g, is, q) ==
    LET ph_nodes == _get_placeholders(g)
        new_graph == SelectSeq(g, LAMBDA n :
                         ~(n.op = "placeholder" /\ Len(users(g, n.id)) = 0))
        new_inps == kept_inps(g, ph_nodes, is)
        qr == Query(mf, new_graph, new_inps, q + 1)
        erased == [graph |-> new_graph, inps |-> is]
    IN  IF Len(ph_nodes) # Len(is)
        THEN [Result("raise", <<>>, <<>>, <<>>, "AssertionError")
                 EXCEPT !.work = [graph |-> g, inps |-> is]]
        ELSE IF ~(Len(new_inps) < Len(is))
             THEN [Result("none", <<>>, <<>>, <<>>, "") EXCEPT !.work = erased]
        ELSE IF ~qr.valid
             THEN [Result("raise", <<>>, <<>>, <<qr>>, "lint") EXCEPT !.work = erased]
        ELSE IF qr.verdict
             THEN [Result("state", new_graph, new_inps, <<qr>>, "") EXCEPT !.work = erased]
        ELSE [Result("none", <<>>, <<>>, <<qr>>, "") EXCEPT !.work = erased]

\* Graph.eliminate_dead_code works on cur_graph itself.
eliminate_dead_code(mf, g, is, q) ==
    LET new_graph == graph_eliminate_dead_code(g)
        qr == Query(mf, new_graph, is, q + 1)
        swept == [graph |-> new_graph, inps |-> is]
    IN  IF new_graph = g
        THEN [Result("none", <<>>, <<>>, <<>>, "") EXCEPT !.work = swept]
        ELSE IF ~qr.valid
             THEN [Result("raise", <<>>, <<>>, <<qr>>, "lint") EXCEPT !.work = swept]
        ELSE IF qr.verdict
             THEN [Result("state", new_graph, is, <<qr>>, "") EXCEPT !.work = swept]
        ELSE [Result("none", <<>>, <<>>, <<qr>>, "") EXCEPT !.work = swept]

\* for idx in range(start_range, end_range): the nodes of one window.
RECURSIVE convert_window(_, _, _)
convert_window(st, idx, end_range) ==
    IF idx >= end_range \/ st.err THEN st
    ELSE LET new_node == st.graph[idx + 1] IN
         IF new_node.op = "call"
         THEN convert_window(
                  _convert_node_to_placeholder([st EXCEPT !.is_removing = TRUE],
                                               new_node.id),
                  idx + 1, end_range)
         ELSE convert_window(st, idx + 1, end_range)

\* A faulty variant: the first window is half of the largest power of two.
delta_gap_half(n) == IF FloorLog2(n) = 0 THEN 1 ELSE Pow2(FloorLog2(n) - 1)

\* Line 194: gap = int(2**math.floor(math.log2(num_nodes))).
delta_gap(n) == Pow2(FloorLog2(n))

\* A faulty variant: a window without an operation node is tested too.
skip_window_never(st) == FALSE

\* Lines 206-207: if not is_removing: continue.
skip_window(st) == ~st.is_removing

\* A faulty variant: new_inps = cur_inps, so that a window appends to the list
\* the window before it left.
window_copy_shared(cur, prev) == [graph |-> cur.graph, inps |-> prev.inps]

\* Lines 198-199: new_graph = copy.deepcopy(cur_graph); new_inps =
\* cur_inps[:].  cur holds cur_graph and cur_inps, prev what the window
\* before this one worked on.
window_copy(cur, prev) == cur

\* The loops of delta_debugging from (gap, start_range) on.  cur is
\* [graph, inps], acc is [log, trace, prev].
RECURSIVE delta_scan(_, _, _, _, _, _)
delta_scan(mf, cur, q, gap, start_range, acc) ==
    IF gap < 1 THEN [Result("none", <<>>, <<>>, acc.log, "") EXCEPT !.trace = acc.trace]
    ELSE IF start_range >= Len(cur.graph)
         THEN delta_scan(mf, cur, q, gap \div 2, 0, acc)
    ELSE LET num_nodes == Len(cur.graph)
             trace == Entered(acc.trace, gap, start_range)
             fresh == window_copy(cur, acc.prev)
             st == convert_window(
                       [graph |-> fresh.graph, inps |-> fresh.inps,
                        err |-> FALSE, is_removing |-> FALSE],
                       start_range, Min(num_nodes, start_range + gap))
             new_graph == _consolidate_placeholders(st.graph)
             qr == Query(mf, new_graph, st.inps, q + Len(acc.log) + 1)
             log == Append(acc.log, qr)
             visited == Append(trace, Event(gap, start_range))
             prev == [graph |-> st.graph, inps |-> st.inps]
         IN  IF st.err
             THEN [Result("raise", <<>>, <<>>, acc.log, "KeyError") EXCEPT !.trace = trace]
             ELSE IF skip_window(st)
                  THEN delta_scan(mf, cur, q, gap, start_range + gap,
                                  [acc EXCEPT !.trace = trace, !.prev = prev])
             ELSE IF ~qr.valid
                  THEN [Result("raise", <<>>, <<>>, log, "lint") EXCEPT !.trace = visited]
             ELSE IF qr.verdict
                  THEN [Result("state", new_graph, st.inps, log, "")
                           EXCEPT !.trace = visited]
             ELSE delta_scan(mf, cur, q, gap, start_range + gap,
                             [log |-> log, trace |-> visited, prev |-> prev])

\* delta_debugging changes copies only: cur_graph and cur_inps are left as
\* they were given.
delta_debugging(mf, g, is, q) ==
    [delta_scan(mf, [graph |-> g, inps |-> is], q, delta_gap(Len(g)), 0,
                [log |-> <<>>, trace |-> <<>>, prev |-> [graph |-> g, inps |-> is]])
        EXCEPT !.work = [graph |-> g, inps |-> is]]

(***************************************************************************)
(* The driver                                                              *)
(***************************************************************************)
\* ConcreteProp.run_node on every node: the result is recorded only when a
\* tensor was found in it.
ConcreteProp(g) ==
    [i \in DOMAIN g |->
        [g[i] EXCEPT !.val = IF g[i].result \in {"tensor", "composite"}
                             THEN g[i].result ELSE "none"]]

strategies ==
    <<"Truncate suffix", "Eliminate dead code", "Remove unused inputs",
      "Delta Debugging", "Eliminate dead code", "Remove unused inputs">>

strategy(name, mf, g, is, q) ==
    CASE name = "Truncate suffix" -> remove_suffix(mf, g, is, q)
      [] name = "Eliminate dead code" -> eliminate_dead_code(mf, g, is, q)
      [] name = "Remove unused inputs" -> remove_unused_inputs(mf, g, is, q)
      [] name = "Delta Debugging" -> delta_debugging(mf, g, is, q)

\* What one call of new_func gives: its outcome, the state it returned, the
\* calls of graph_fails and the trace of the strategy, the exception raised,
\* and what old_state holds after the call.
Outcome(o, st, r, log, err, old) ==
    [outcome |-> o, state |-> st, log |-> log, err |-> err, trace |-> r.trace,
     old_after |-> old]

\* A faulty variant: the strategy is given the graph and the list of
\* old_state themselves.
strategy_argument_shared(old_state) ==
    [graph |-> old_state.graph, inps |-> old_state.inps, shared |-> TRUE]

\* Line 103: copy.deepcopy(old_state.graph), list(old_state.inps); shared
\* tells whether the strategy works on the objects of old_state.
strategy_argument(old_state) ==
    [graph |-> old_state.graph, inps |-> old_state.inps, shared |-> FALSE]

\* A faulty variant: only a smaller node count is progress.
made_progress_nodes_only(new_nodes, old_nodes, new_inps, old_inps) ==
    new_nodes < old_nodes

\* Lines 109-112: fewer nodes, or as many nodes and more inputs.
made_progress(new_nodes, old_nodes, new_inps, old_inps) ==
    \/ new_nodes < old_nodes
    \/ new_nodes = old_nodes /\ new_inps > old_inps

\* A faulty variant: the answer of the re-verification is not looked at.
reverify_ignored(qr) == TRUE

\* Line 116: graph_fails(new_state.graph, new_state.inps).
reverify(qr) == qr.verdict

\* _register_strategy.new_func: the strategy runs on a copy of old_state; its
\* outcome is "accepted" (new_state returned), "none" (the strategy returned
\* None), "rejected" (the re-verification failed: a warning, None returned)
\* or "raised".
new_func(mf, name, old_state, q) ==
    LET arg == strategy_argument(old_state)
        r == strategy(name, mf, arg.graph, arg.inps, q)
        new_nodes == Len(r.graph)
        old_nodes == Len(old_state.graph)
        new_inps == Len(r.inps)
        old_inps == Len(old_state.inps)
        qr == Query(mf, r.graph, r.inps, q + Len(r.log) + 1)
        old == IF arg.shared THEN r.work ELSE old_state
    IN  IF r.tag = "raise" THEN Outcome("raised", NoState, r, r.log, r.err, old)
        ELSE IF r.tag = "none" THEN Outcome("none", NoState, r, r.log, "", old)
        ELSE IF ~made_progress(new_nodes, old_nodes, new_inps, old_inps)
             THEN Outcome("raised", NoState, r, r.log, "RuntimeError: no progress", old)
        ELSE IF ~qr.valid
             THEN Outcome("raised", NoState, r, Append(r.log, qr), "lint", old)
        ELSE IF ~reverify(qr)
             THEN Outcome("rejected", NoState, r, Append(r.log, qr), "", old)
        ELSE Outcome("accepted", [graph |-> r.graph, inps |-> r.inps], r,
                     Append(r.log, qr), "", old)

\* A faulty variant: the strategies are always given the original state.
OriginalState == [graph |-> fail_f, inps |-> inps]

\* Line 223: the state a strategy of the loop is applied to.
CurrentState == failing_state

\* A faulty variant: the flag is cleared once, before the loop.
keep_any_succeeded(flag) == flag

\* Line 217: any_succeeded at the start of a pass.
reset_any_succeeded(flag) == FALSE

\* A faulty variant: the sense of the check is inverted.
original_passes(qr) == ~qr.verdict

\* A faulty variant: the check never raises.
original_unchecked(qr) == TRUE

\* Line 95: graph_fails(failing_graph, inps).
original_fails(qr) == qr.verdict

\* A faulty variant: the loop is left after its first pass.
loop_exits_always(succeeded) == TRUE

\* Lines 228-229: if not any_succeeded: break.
loop_exits(succeeded) == ~succeeded

\* What minifier returns: the module of the accepted graph, and inps.
ReturnValue(state) == [graph |-> state.graph, inps |-> inps]

\* Lines 83-97 and 215-217: propagation, the check of the original pair, and
\* the entry into the loop.
Start ==
    /\ pc = "start"
    /\ LET failing_graph == ConcreteProp(fail_f)
           qr == Query(module_fails, failing_graph, inps, num_queries + 1)
       IN  /\ fail_f' = failing_graph
           /\ num_queries' = num_queries + 1
           /\ last' = [name |-> "start", old |-> NoState, outcome |-> "none",
                       log |-> <<qr>>, trace |-> <<>>]
           /\ IF ~qr.valid \/ ~original_fails(qr)
              THEN /\ pc' = "error"
                   /\ error' = IF qr.valid
                               THEN "RuntimeError: Input graph did not fail the tester"
                               ELSE "lint"
                   /\ UNCHANGED <<failing_state, passes>>
              ELSE /\ pc' = "loop"
                   /\ failing_state' = [graph |-> failing_graph, inps |-> inps]
                   /\ passes' = 1
                   /\ UNCHANGED error
    /\ UNCHANGED <<inps, module_fails, strategy_idx, any_succeeded, returned>>

\* One iteration of "for strategy in strategies", with the end of the pass
\* (lines 228-233) when the strategy is the last of the list.
Invoke(name) ==
    /\ pc = "loop"
    /\ passes <= PassCap
    /\ \E res \in {new_func(module_fails, name, CurrentState, num_queries)} :
       LET old_state == CurrentState
           new_state == IF res.outcome = "accepted" THEN res.state ELSE res.old_after
           succeeded == any_succeeded \/ res.outcome = "accepted"
       IN  /\ num_queries' = num_queries + Len(res.log)
           /\ last' = [name |-> name, old |-> old_state, outcome |-> res.outcome,
                       log |-> res.log, trace |-> res.trace]
           /\ IF res.outcome = "raised"
              THEN /\ pc' = "error"
                   /\ error' = res.err
                   /\ UNCHANGED <<failing_state, strategy_idx, any_succeeded,
                                  passes, returned>>
              ELSE /\ failing_state' = new_state
                   /\ UNCHANGED error
                   /\ IF strategy_idx < Len(strategies)
                      THEN /\ strategy_idx' = strategy_idx + 1
                           /\ any_succeeded' = succeeded
                           /\ UNCHANGED <<pc, passes, returned>>
                      ELSE IF ~loop_exits(succeeded)
                      THEN /\ strategy_idx' = 1
                           /\ any_succeeded' = reset_any_succeeded(succeeded)
                           /\ passes' = passes + 1
                           /\ UNCHANGED <<pc, returned>>
                      ELSE /\ pc' = "done"
                           /\ returned' = ReturnValue(new_state)
                           /\ UNCHANGED <<strategy_idx, any_succeeded, passes>>
    /\ UNCHANGED <<fail_f, inps, module_fails>>

TruncateSuffix ==
    /\ strategies[strategy_idx] = "Truncate suffix"
    /\ Invoke("Truncate suffix")

EliminateDeadCode ==
    /\ strategies[strategy_idx] = "Eliminate dead code"
    /\ Invoke("Eliminate dead code")

RemoveUnusedInputs ==
    /\ strategies[strategy_idx] = "Remove unused inputs"
    /\ Invoke("Remove unused inputs")

DeltaDebugging ==
    /\ strategies[strategy_idx] = "Delta Debugging"
    /\ Invoke("Delta Debugging")

Next ==
    \/ Start
    \/ TruncateSuffix
    \/ EliminateDeadCode
    \/ RemoveUnusedInputs
    \/ DeltaDebugging

(***************************************************************************)
(* Initial states: the arguments of minifier                               *)
(***************************************************************************)
SmallSets(S, n) == {A \in SUBSET S : Cardinality(A) <= n}

\* The i-th node of an original graph: a placeholder, or an operation on at
\* most MaxArgs earlier nodes.
NodeChoices(i) ==
    {[id |-> i, op |-> "placeholder", args |-> {}, result |-> "tensor", val |-> "none"]}
    \cup {[id |-> i, op |-> "call", args |-> a, result |-> r, val |-> "none"] :
             a \in SmallSets(1..(i - 1), MaxArgs),
             r \in {"tensor", "composite", "other"}}

RECURSIVE Bodies(_)
Bodies(k) ==
    IF k = 0 THEN {<<>>}
    ELSE {Append(g, n) : g \in Bodies(k - 1), n \in NodeChoices(k)}

\* Linted graphs of 1..n nodes followed by their output node.
Graphs(n) ==
    UNION {{Append(g, output(a)) : g \in Bodies(k),
                                   a \in SmallSets(1..k, MaxOutputs) \ {{}}} :
           k \in 1..n}

Predicates(g, flaky) ==
    {[needOp |-> o, needAny |-> a, flaky |-> f] :
        o \in SmallSets(Ids(g) \ {OutId}, MaxNeed),
        a \in SmallSets(Ids(g) \ {OutId}, MaxNeed),
        f \in flaky} 

InitWith(flaky) ==
    /\ pc = "start"
    /\ fail_f \in Graphs(MaxNodes)
    /\ inps = [i \in DOMAIN _get_placeholders(fail_f) |-> _get_placeholders(fail_f)[i].id]
    /\ module_fails \in {m \in Predicates(fail_f, flaky) :
                            /\ m.needOp \cap m.needAny = {}
                            /\ Cardinality(m.needOp \cup m.needAny) <= MaxNeed}
    /\ failing_state = NoState
    /\ num_queries = 0
    /\ strategy_idx = 1
    /\ any_succeeded = FALSE
    /\ passes = 0
    /\ returned = NoState
    /\ error = ""
    /\ last = [name |-> "", old |-> NoState, outcome |-> "none", log |-> <<>>,
               trace |-> <<>>]

\* A deterministic failure predicate.
Init == InitWith({{}})

\* A failure predicate that may lie at one of its first MaxFlaky queries.
InitFlaky == InitWith({{}} \cup {{q} : q \in 1..MaxFlaky})

Spec == Init /\ [][Next]_vars

SpecFlaky == InitFlaky /\ [][Next]_vars

(***************************************************************************)
(* One strategy applied until it reports no progress                       *)
(***************************************************************************)
\* The strategy registered under name is called on the state held, and again
\* on every state it returns; passes counts the calls.
Repeat(name) ==
    /\ pc = "loop"
    /\ \E res \in {new_func(module_fails, name, failing_state, num_queries)} :
           /\ num_queries' = num_queries + Len(res.log)
           /\ last' = [name |-> name, old |-> failing_state, outcome |-> res.outcome,
                       log |-> res.log, trace |-> res.trace]
           /\ IF res.outcome = "raised"
              THEN /\ pc' = "error"
                   /\ error' = res.err
                   /\ UNCHANGED <<failing_state, passes, returned>>
              ELSE IF res.outcome = "accepted"
              THEN /\ failing_state' = res.state
                   /\ passes' = passes + 1
                   /\ UNCHANGED <<pc, error, returned>>
              ELSE /\ pc' = "done"
                   /\ failing_state' = res.old_after
                   /\ returned' = ReturnValue(res.old_after)
                   /\ UNCHANGED <<error, passes>>
    /\ UNCHANGED <<fail_f, inps, module_fails, strategy_idx, any_succeeded>>

RepeatTruncateSuffix ==
    /\ last.name \in {"start", "Truncate suffix"}
    /\ Repeat("Truncate suffix")

\* A linear chain of n nodes: one placeholder first, the output node last,
\* each operation node on the node before it.
Chain(n) ==
    [i \in 1..n |->
        IF i = n THEN output({n - 1})
        ELSE [id |-> i, op |-> IF i = 1 THEN "placeholder" ELSE "call",
              args |-> IF i = 1 THEN {} ELSE {i - 1},
              result |-> "tensor", val |-> "none"]]

\* The arguments of minifier for a given set of graphs: the values of the
\* placeholders as inputs, and a predicate that answers true exactly when
\* the nodes of one of the sets needs[fail_f] are all there as operation
\* nodes.
InitOn(graphs, needs) ==
    /\ pc = "start"
    /\ fail_f \in graphs
    /\ inps = [i \in DOMAIN _get_placeholders(fail_f) |-> _get_placeholders(fail_f)[i].id]
    /\ module_fails \in {[needOp |-> o, needAny |-> {}, flaky |-> {}] : o \in needs[fail_f]}
    /\ failing_state = NoState
    /\ num_queries = 0
    /\ strategy_idx = 1
    /\ any_succeeded = FALSE
    /\ passes = 0
    /\ returned = NoState
    /\ error = ""
    /\ last = [name |-> "", old |-> NoState, outcome |-> "none", log |-> <<>>,
               trace |-> <<>>]

\* The chains of 3..ChainNodes nodes.
Chains == {Chain(n) : n \in 3..ChainNodes}

\* A chain of 3..ChainNodes nodes that fails because of one of its operation
\* nodes.
InitChain == InitOn(Chains, [g \in Chains |-> {{id} : id \in CallIds(g)}])

NextChain == Start \/ RepeatTruncateSuffix

SpecChain == InitChain /\ [][NextChain]_vars

RepeatDeltaDebugging ==
    /\ last.name \in {"start", "Delta Debugging"}
    /\ Repeat("Delta Debugging")

\* A graph of n nodes whose values are all tensors: p placeholders first, the
\* output node last, each operation node on the node before it ("chain") or
\* on the first placeholder ("star").
Wide(n, p, shape) ==
    [i \in 1..n |->
        IF i = n THEN output({n - 1})
        ELSE [id |-> i, op |-> IF i <= p THEN "placeholder" ELSE "call",
              args |-> IF i <= p THEN {}
                       ELSE IF shape = "chain" THEN {i - 1} ELSE {1},
              result |-> "tensor", val |-> "none"]]

WideGraphs == {Wide(WideNodes, p, shape) : p \in 1..2, shape \in {"chain", "star"}}

\* Three operation nodes in a row.
Triples(g) == {{k, k + 1, k + 2} : k \in {j \in CallIds(g) : j + 2 \in CallIds(g)}}

\* A graph of WideNodes nodes that fails because of three operation nodes in
\* a row.
InitWide == InitOn(WideGraphs, [g \in WideGraphs |-> Triples(g)])

NextWide == Start \/ RepeatDeltaDebugging

SpecWide == InitWide /\ [][NextWide]_vars

(***************************************************************************)
(* Properties                                                              *)
(***************************************************************************)
Running == pc \in {"loop", "done"}
Terminated == pc \in {"done", "error"}
NumPlaceholders(g) == Cardinality({i \in DOMAIN g : g[i].op = "placeholder"})
InLoop(name) == last.name = name /\ last.name \in {strategies[i] : i \in DOMAIN strategies}
Accepted(name) == InLoop(name) /\ last.outcome = "accepted"

\* C1: with a deterministic failure predicate, the state the driver holds
\* while it is in the loop, and when it returns, passes lint and makes the
\* predicate answer true.
C1_AcceptedStateFails ==
    Running => /\ lint(failing_state.graph)
               /\ Reproduces(module_fails, failing_state.graph)

\* A state accepted after a strategy returned it.
C1_Witness ==
    /\ pc = "loop"
    /\ last.outcome = "accepted"
    /\ failing_state # last.old
    /\ module_fails.needOp # {}

\* C2: the returned pair is the last accepted state: one input per
\* placeholder of the returned graph, still failing, and no more nodes than
\* the original graph.
C2_ReturnedPair ==
    pc = "done" =>
        /\ returned = failing_state
        /\ Len(returned.inps) = NumPlaceholders(returned.graph)
        /\ Reproduces(module_fails, returned.graph)
        /\ Len(returned.graph) <= Len(fail_f)

\* C3: with a deterministic failure predicate the driver ends within as many
\* passes as the original graph has nodes: every step either ends the run or
\* moves on in the list of strategies or to the next pass, the loop is never
\* stuck, and no more passes are started than the original graph has nodes.
C3_TerminatesWithinNodeCountPasses ==
    [][/\ passes' <= Len(fail_f)
       /\ \/ Terminated'
          \/ passes' > passes
          \/ passes' = passes /\ strategy_idx' > strategy_idx
       /\ pc' = "loop" => strategy_idx' \in DOMAIN strategies /\ passes' <= PassCap]_vars

\* A run that returned after three passes: two with progress and the last
\* without.
C3_Witness == pc = "done" /\ passes >= 3

\* C4: from one accepted state to the next the node count does not grow, and
\* when it stays the same the input count does not shrink.
C4_MonotonicShrink ==
    [][Running /\ Running'
        => /\ Len(failing_state'.graph) <= Len(failing_state.graph)
           /\ Len(failing_state'.graph) = Len(failing_state.graph)
                 => Len(failing_state'.inps) >= Len(failing_state.inps)]_vars

\* An accepted step that kept the node count and added inputs, after one that
\* cut nodes off.
C4_Witness ==
    /\ Accepted("Delta Debugging")
    /\ Len(failing_state.graph) = Len(last.old.graph)
    /\ Len(failing_state.inps) > Len(last.old.inps)
    /\ Len(failing_state.graph) < Len(fail_f)

PlaceholdersFirst(g) ==
    \A i, j \in DOMAIN g : g[i].op = "placeholder" /\ g[j].op = "call" => i < j

\* C5: when the placeholders of the original graph precede its operation
\* nodes, every pair passed to graph_fails and every accepted state has one
\* input per placeholder.
C5_OneInputPerPlaceholder ==
    PlaceholdersFirst(fail_f) =>
        /\ \A i \in DOMAIN last.log :
               Len(last.log[i].inps) = NumPlaceholders(last.log[i].graph)
        /\ Running => Len(failing_state.inps) = NumPlaceholders(failing_state.graph)

\* C6: every graph passed to graph_fails, the accepted graph and the returned
\* graph pass lint: one output node, no duplicate node, every operand an
\* earlier node of the same graph.
C6_StructurallyValid ==
    /\ \A i \in DOMAIN last.log : lint(last.log[i].graph)
    /\ Running => lint(failing_state.graph)
    /\ pc = "done" => lint(returned.graph)

\* Delta debugging was accepted on a truncated graph, and consolidation moved
\* a converted node in front of an operation node that preceded it.
C6_Witness ==
    /\ Accepted("Delta Debugging")
    /\ Len(failing_state.graph) < Len(fail_f)
    /\ failing_state.graph[Len(failing_state.graph)].args
           # fail_f[Len(fail_f)].args
    /\ \E a, b \in Ids(failing_state.graph) :
           /\ Pos(last.old.graph, a) < Pos(last.old.graph, b)
           /\ Pos(failing_state.graph, b) < Pos(failing_state.graph, a)

OriginalFails == lint(fail_f) /\ Reproduces(module_fails, fail_f)

\* C7: when the original pair does not make the predicate answer true,
\* minifier raises after one query, before any strategy runs, and returns
\* nothing.
C7_FailFast ==
    ~OriginalFails /\ pc # "start" =>
        /\ pc = "error"
        /\ error = "RuntimeError: Input graph did not fail the tester"
        /\ num_queries = 1
        /\ last.name = "start"
        /\ passes = 0
        /\ returned = NoState

\* The original pair did not fail and minifier has raised.
C7_Witness == ~OriginalFails /\ pc = "error" /\ num_queries = 1

\* The last strategy invocation ended with the re-verification of the
\* candidate the strategy returned, and the predicate answered false: the
\* last two queries are for the same pair, answered true and then false.
ReverifyFailed ==
    /\ \E i \in DOMAIN strategies : last.name = strategies[i]
    /\ Len(last.log) >= 2
    /\ LET n == Len(last.log) IN
           /\ last.log[n].graph = last.log[n - 1].graph
           /\ last.log[n].inps = last.log[n - 1].inps
           /\ last.log[n - 1].verdict
           /\ ~last.log[n].verdict

\* C8 (as stated): a failed re-verification is fatal: minifier raises and
\* returns nothing.
C8_ReverifyFailureIsFatal ==
    ReverifyFailed => pc = "error" /\ returned = NoState

\* C8 (amended): a failed re-verification discards the candidate: nothing is
\* raised, the accepted state stays what it was, and the driver goes on.
C8_ReverifyFailureIsDiscarded ==
    ReverifyFailed =>
        /\ Running
        /\ error = ""
        /\ last.outcome = "rejected"
        /\ failing_state = last.old

\* A re-verification failed in the middle of a pass and the loop goes on.
C8_Witness == ReverifyFailed /\ pc = "loop" /\ strategy_idx > 1

\* The placeholders of g paired with their inputs, in order.
InputPairs(st) ==
    LET ph == SelectSeq(st.graph, LAMBDA n : n.op = "placeholder")
    IN  [i \in DOMAIN ph |-> <<ph[i].id, st.inps[i]>>]

HasConsumer(g, id) == \E i \in DOMAIN g : id \in g[i].args

UnusedPlaceholders(g) ==
    {g[i].id : i \in {j \in DOMAIN g : g[j].op = "placeholder" /\ ~HasConsumer(g, g[j].id)}}

\* C9: on a state with one input per placeholder, an accepted Remove unused
\* inputs keeps exactly the placeholders that have a consumer, each with its
\* own input, in order, leaves the other nodes alone and still fails; without
\* an unused placeholder it returns None without a query, and it returns
\* None when the pruned graph does not fail.
C9_RemoveUnusedInputs ==
    LET old == last.old
        pruned == SelectSeq(old.graph, LAMBDA n : n.id \notin UnusedPlaceholders(old.graph))
    IN  InLoop("Remove unused inputs")
        /\ Len(old.inps) = NumPlaceholders(old.graph) =>
            /\ last.outcome \in {"accepted", "none"}
            /\ last.outcome = "accepted" =>
                  /\ failing_state.graph = pruned
                  /\ Len(failing_state.inps) = NumPlaceholders(pruned)
                  /\ InputPairs(failing_state)
                        = SelectSeq(InputPairs(old),
                                    LAMBDA pr : HasConsumer(old.graph, pr[1]))
                  /\ Reproduces(module_fails, failing_state.graph)
            /\ UnusedPlaceholders(old.graph) = {} =>
                  last.outcome = "none" /\ last.log = <<>>
            /\ ~Reproduces(module_fails, pruned) => last.outcome = "none"
            /\ last.outcome = "none" => failing_state = old

\* An accepted Remove unused inputs dropped a placeholder that stood before
\* one it kept.
C9_Witness ==
    /\ Accepted("Remove unused inputs")
    /\ \E a \in UnusedPlaceholders(last.old.graph) :
       \E i \in DOMAIN failing_state.graph :
           /\ failing_state.graph[i].op = "placeholder"
           /\ Pos(last.old.graph, a) < Pos(last.old.graph, failing_state.graph[i].id)

\* No strategy, applied to the original failing state, gives an accepted
\* candidate.
AlreadyMinimal ==
    /\ OriginalFails
    /\ \A i \in DOMAIN strategies :
           new_func(module_fails, strategies[i],
                    [graph |-> ConcreteProp(fail_f), inps |-> inps], 1).outcome
               # "accepted"

\* C10: when the original failing state is already minimal, the driver makes
\* one full pass without progress and ends with the original graph and inputs.
C10_MinimalUnchanged ==
    AlreadyMinimal /\ pc # "start" =>
        /\ pc # "error"
        /\ passes = 1
        /\ failing_state = [graph |-> fail_f, inps |-> inps]
        /\ pc = "done" => returned = failing_state

\* The node a chain fails because of.
Culprit == CHOOSE id \in module_fails.needOp : TRUE

LastNode(g) == g[Len(g)]

\* C11 (as stated): on the chain of 10 nodes that fails because of node 7,
\* truncation applied until no progress ends with a failing graph cut at node
\* 7 that has at most 7 nodes.
C11_ChainCutAtMostSevenNodes ==
    pc = "done" /\ Len(fail_f) = 10 /\ Culprit = 7 =>
        /\ Reproduces(module_fails, failing_state.graph)
        /\ LastNode(failing_state.graph).args = {7}
        /\ Len(failing_state.graph) <= 7

\* C11 (amended): on a chain that fails because of node k, truncation applied
\* until no progress raises nothing and ends with a failing graph that is the
\* first k nodes of the chain followed by a new output node on node k: k + 1
\* nodes, 8 for the chain of 10 nodes that fails because of node 7.
C11_ChainCutAfterCulprit ==
    /\ pc # "error"
    /\ pc = "done" =>
          /\ Reproduces(module_fails, failing_state.graph)
          /\ failing_state.graph = SubSeq(fail_f, 1, Culprit) \o <<output({Culprit})>>
          /\ Len(failing_state.graph) = Culprit + 1
          /\ Len(fail_f) = 10 /\ Culprit = 7 => Len(failing_state.graph) = 8

\* The chain of 10 nodes that fails because of node 7 was cut and truncation
\* then reported no progress.
C11_Witness ==
    /\ pc = "done"
    /\ Len(fail_f) = 10
    /\ Culprit = 7
    /\ passes >= 2
    /\ Len(failing_state.graph) = 8

\* C12: on a graph of 16 nodes with tensor values only that fails exactly
\* when three given operation nodes in a row (nodes 3, 4 and 5) are operation
\* nodes, Delta debugging applied until no progress raises nothing and ends
\* with a failing graph of as many nodes, in which the three nodes are the
\* only operation nodes and every other operation node of the original graph
\* is a placeholder.
C12_DeltaIsolatesCulprits ==
    /\ pc # "error"
    /\ pc = "done" =>
          /\ Reproduces(module_fails, failing_state.graph)
          /\ Len(failing_state.graph) = Len(fail_f)
          /\ CallIds(failing_state.graph) = module_fails.needOp
          /\ \A id \in CallIds(fail_f) \ module_fails.needOp :
                 \E i \in DOMAIN failing_state.graph :
                     /\ failing_state.graph[i].id = id
                     /\ failing_state.graph[i].op = "placeholder"

\* The graph of 16 nodes that fails because of nodes 3, 4 and 5: Delta
\* debugging converted the other operation nodes in several calls and then
\* reported no progress.
C12_Witness ==
    /\ pc = "done"
    /\ Len(fail_f) = 16
    /\ module_fails.needOp = {3, 4, 5}
    /\ passes >= 4
    /\ CallIds(failing_state.graph) = {3, 4, 5}
    /\ Len(failing_state.inps) = 12

\* The values appended for the placeholders of g, in the order of the
\* placeholders: the recorded value of a node whose value is a tensor (for a
\* placeholder of the original graph, its input), else the zero scalar.
ValuesInGraphOrder(g) ==
    LET ph == SelectSeq(g, LAMBDA n : n.op = "placeholder")
    IN  [i \in DOMAIN ph |-> IF ph[i].val = "tensor" THEN ph[i].id ELSE Zero]

\* C13: when the placeholders of the original graph precede its operation
\* nodes, every pair that Delta debugging passes to graph_fails with one input
\* per placeholder, and every state accepted from it, has its inputs in the
\* order of the placeholders of the graph: the i-th input is the value
\* appended for the i-th placeholder.
C13_InputsInPlaceholderOrder ==
    PlaceholdersFirst(fail_f) /\ InLoop("Delta Debugging") =>
        \A i \in DOMAIN last.log :
            Len(last.log[i].inps) = NumPlaceholders(last.log[i].graph)
                => last.log[i].inps = ValuesInGraphOrder(last.log[i].graph)

\* The events of a trace that stand for calls of graph_fails.
Visits(trace) == SelectSeq(trace, LAMBDA e : e.idx >= 0)

\* The strides (window sizes) of a trace, one per while iteration.
Gaps(trace) ==
    LET es == SelectSeq(trace, LAMBDA e : e.idx < 0)
    IN  [i \in DOMAIN es |-> es[i].gap]

\* The operation nodes of g at the indices start .. start + gap - 1.
WindowOps(g, start, gap) ==
    {g[j].id : j \in {k \in DOMAIN g : /\ start < k
                                       /\ k <= start + gap
                                       /\ g[k].op = "call"}}

\* The nodes of S with every consumer, other than the output node, of a node
\* of the set whose value is not a tensor.
RECURSIVE WithConsumers(_, _)
WithConsumers(g, S) ==
    LET T == S \cup {g[j].id : j \in {k \in DOMAIN g :
                        /\ g[k].op # "output"
                        /\ \E a \in g[k].args \cap S : g[Pos(g, a)].val # "tensor"}}
    IN  IF T = S THEN S ELSE WithConsumers(g, T)

\* The nodes that are operation nodes of old and placeholders of new.
ConvertedIn(old, new) ==
    {id \in CallIds(old) : \E i \in DOMAIN new : new[i].id = id /\ new[i].op = "placeholder"}

IsPrefix(s, t) == Len(s) <= Len(t) /\ SubSeq(t, 1, Len(s)) = s

\* C14: a strategy invocation that returns None, also after a rejected
\* re-verification, leaves the accepted graph and input list what they were;
\* and every candidate of Delta debugging comes from the accepted state by
\* the conversions of its own window alone: the nodes converted are the
\* operation nodes of the window with the consumers the conversion pulls in,
\* and the inputs are the accepted inputs followed by the values appended for
\* these nodes.
C14_NoInPlaceChange ==
    (\E i \in DOMAIN strategies : last.name = strategies[i]) =>
        /\ last.outcome \in {"none", "rejected"} => failing_state = last.old
        /\ last.name = "Delta Debugging" =>
              \A i \in DOMAIN Visits(last.trace) :
                  LET e == Visits(last.trace)[i]
                      c == last.log[i]
                  IN  /\ ConvertedIn(last.old.graph, c.graph)
                            = WithConsumers(last.old.graph,
                                            WindowOps(last.old.graph, e.idx, e.gap))
                      /\ Ids(c.graph) = Ids(last.old.graph)
                      /\ Len(c.graph) = Len(last.old.graph)
                      /\ IsPrefix(last.old.inps, c.inps)
                      /\ {c.inps[k] : k \in (Len(last.old.inps) + 1)..Len(c.inps)}
                            = {ValuesInGraphOrder(c.graph)[k] :
                                  k \in {j \in DOMAIN _get_placeholders(c.graph) :
                                      _get_placeholders(c.graph)[j].id
                                          \in ConvertedIn(last.old.graph, c.graph)}}

\* Delta debugging tried a window, and then one that does not convert all
\* the nodes of the first, and returned None or had its candidate rejected.
C14_Witness ==
    /\ last.name = "Delta Debugging"
    /\ last.outcome \in {"none", "rejected"}
    /\ Len(Visits(last.trace)) >= 2
    /\ failing_state = last.old
    /\ ~(ConvertedIn(last.old.graph, last.log[1].graph)
            \subseteq ConvertedIn(last.old.graph, last.log[2].graph))

\* The graph cut after the node at index idx (counted from 0): the nodes up
\* to it and a new output node on it.
CutAfter(g, idx) == SubSeq(g, 1, idx + 1) \o <<output({g[idx + 1].id})>>

\* e comes before f in a scan by decreasing stride and, within a stride, by
\* increasing index.
Before(e, f) == e.gap > f.gap \/ (e.gap = f.gap /\ e.idx < f.idx)

\* C15: in one Truncate suffix invocation the cut points are visited by
\* decreasing stride and increasing index within a stride; each is an
\* operation node whose index is a multiple of the stride; no index is
\* submitted twice; the candidate of a visit is the graph cut after that node;
\* the candidate returned is the first one visited that fails and is strictly
\* smaller; and None is returned only after every operation node was tried.
C15_SuffixScanOrder ==
    InLoop("Truncate suffix") =>
        LET g == last.old.graph
            V == Visits(last.trace)
            tried == {V[i].idx : i \in DOMAIN V}
            good(i) == last.log[i].verdict /\ Len(last.log[i].graph) < Len(g)
        IN  /\ last.outcome \in {"none", "accepted"}
            /\ \A i, j \in DOMAIN V : i < j => Before(V[i], V[j]) /\ V[i].idx # V[j].idx
            /\ \A i \in DOMAIN V :
                  /\ V[i].idx % V[i].gap = 0
                  /\ g[V[i].idx + 1].op = "call"
                  /\ last.log[i].graph = CutAfter(g, V[i].idx)
                  /\ last.log[i].inps = last.old.inps
                  /\ i < Len(V) => ~good(i)
            /\ Len(V) <= Cardinality(CallIds(g))
            /\ last.outcome = "accepted" =>
                  /\ V # <<>>
                  /\ good(Len(V))
                  /\ failing_state.graph = CutAfter(g, V[Len(V)].idx)
            /\ last.outcome = "none" =>
                  /\ \A i \in DOMAIN V : ~good(i)
                  /\ tried = {k - 1 : k \in {j \in DOMAIN g : g[j].op = "call"}}
                  /\ Len(last.log) = Len(V)
                  /\ Gaps(last.trace)[Len(Gaps(last.trace))] = 1

\* A cut was accepted at stride 1 after the two cut points of stride 2 had
\* been tried and refused.
C15_Witness ==
    /\ Accepted("Truncate suffix")
    /\ Len(Visits(last.trace)) = 3
    /\ Visits(last.trace)[1].gap = 2
    /\ Visits(last.trace)[3].gap = 1

RECURSIVE IsPowerOfTwo(_)
IsPowerOfTwo(p) == p = 1 \/ (p > 1 /\ p % 2 = 0 /\ IsPowerOfTwo(p \div 2))

\* The largest power of two strictly below n, for n >= 2.
LargestPowerBelow(n) ==
    CHOOSE p \in 1..n : IsPowerOfTwo(p) /\ p < n /\ 2 * p >= n

\* The largest power of two less than or equal to n, for n >= 1.
LargestPowerUpTo(n) ==
    CHOOSE p \in 1..n : IsPowerOfTwo(p) /\ p <= n /\ 2 * p > n

\* Each stride after the first is half of the one before it.
Halving(gaps) == \A i \in DOMAIN gaps : i > 1 => 2 * gaps[i] = gaps[i - 1]

\* C16 (as stated): the first stride of Truncate suffix on a graph of n nodes
\* is the largest power of two strictly below n, and the strides that follow
\* are obtained by halving.
C16_FirstStrideLargestPowerBelow ==
    InLoop("Truncate suffix") =>
        LET gaps == Gaps(last.trace)
        IN  /\ gaps # <<>>
            /\ gaps[1] = LargestPowerBelow(Len(last.old.graph))
            /\ Halving(gaps)

\* C16 (amended): the first stride of Truncate suffix on a graph of n >= 2
\* nodes is half of the largest power of two less than or equal to n (1 for
\* n < 4); the strides that follow are obtained by halving, down to 1 when
\* None is returned.
C16_FirstStrideHalfPowerUpTo ==
    InLoop("Truncate suffix") =>
        LET gaps == Gaps(last.trace)
            n == Len(last.old.graph)
            half == LargestPowerUpTo(n) \div 2
        IN  /\ gaps # <<>>
            /\ gaps[1] = IF half = 0 THEN 1 ELSE half
            /\ Halving(gaps)
            /\ last.outcome = "none" => gaps[Len(gaps)] = 1

\* Truncate suffix on 10 nodes went through the strides 4, 2 and 1 (the
\* largest power of two below 10 is 8).
C16_Witness ==
    /\ InLoop("Truncate suffix")
    /\ Len(last.old.graph) = 10
    /\ Gaps(last.trace) = <<4, 2, 1>>
    /\ last.outcome = "none"

\* The windows of a graph that hold an operation node: sizes from the largest
\* power of two up to the node count down to 1, starts at the multiples of
\* the size.
Windows(g) ==
    {e \in [gap : {p \in 1..Len(g) : IsPowerOfTwo(p)}, idx : 0..(Len(g) - 1)] :
        e.idx % e.gap = 0 /\ WindowOps(g, e.idx, e.gap) # {}}

Fails(g) == lint(g) /\ Reproduces(module_fails, g)

\* g with the nodes of S turned into placeholders, placeholders first.
AsPlaceholders(g, S) ==
    LET h == [i \in DOMAIN g |->
                 IF g[i].id \in S THEN [g[i] EXCEPT !.op = "placeholder", !.args = {}]
                 ELSE g[i]]
    IN  SelectSeq(h, LAMBDA n : n.op = "placeholder")
            \o SelectSeq(h, LAMBDA n : n.op # "placeholder")

\* g without its operation nodes that no node uses, directly or through
\* other such nodes.
RECURSIVE WithoutDeadCode(_)
WithoutDeadCode(g) ==
    LET h == SelectSeq(g, LAMBDA n : n.op # "call" \/ HasConsumer(g, n.id))
    IN  IF h = g THEN g ELSE WithoutDeadCode(h)

\* C18: when the driver returns with a deterministic predicate, no single
\* step of a strategy applies to the accepted state: for every operation
\* node, the graph cut after it does not fail or is not smaller, and the
\* graph with this node (and the consumers its conversion pulls in) turned
\* into a placeholder does not fail; the graph without its dead code, and the
\* graph without its unused placeholders, is the same graph or does not fail.
C18_LocallyMinimal ==
    pc = "done" =>
        LET g == failing_state.graph
            pruned == SelectSeq(g, LAMBDA n : n.id \notin UnusedPlaceholders(g))
        IN  /\ \A i \in DOMAIN g : g[i].op = "call" =>
                  /\ ~Fails(CutAfter(g, i - 1)) \/ Len(CutAfter(g, i - 1)) >= Len(g)
                  /\ ~Fails(AsPlaceholders(g, WithConsumers(g, {g[i].id})))
            /\ WithoutDeadCode(g) = g \/ ~Fails(WithoutDeadCode(g))
            /\ pruned = g \/ ~Fails(pruned)

\* The driver returned after more than one pass with a graph that was cut and
\* still has an operation node and a placeholder made of one.
C18_Witness ==
    /\ pc = "done"
    /\ passes >= 2
    /\ Len(failing_state.graph) < Len(fail_f)
    /\ CallIds(failing_state.graph) # {}
    /\ ConvertedIn(fail_f, failing_state.graph) # {}

\* C19: every node of the original graph has a recorded value when the loop
\* runs, so that no conversion, and no Delta debugging invocation, aborts for
\* a missing value.
C19_ConversionAlwaysCompletes ==
    Running \/ pc = "error" => error # "KeyError"

\* The state a strategy returned in the last invocation: the pair of the
\* re-verification.
Candidate == last.log[Len(last.log)]

\* C20: new_func never raises "Success raised but no progress made?": every
\* state that Truncate suffix, Eliminate dead code or Remove unused inputs
\* returns has fewer nodes than the state given, and every state that Delta
\* debugging returns has as many nodes and more inputs.
C20_NoSuccessWithoutProgress ==
    /\ error # "RuntimeError: no progress"
    /\ (\E i \in DOMAIN strategies : last.name = strategies[i])
       /\ last.outcome \in {"accepted", "rejected"} =>
            IF last.name = "Delta Debugging"
            THEN /\ Len(Candidate.graph) = Len(last.old.graph)
                 /\ Len(Candidate.inps) > Len(last.old.inps)
            ELSE Len(Candidate.graph) < Len(last.old.graph)

\* Remove unused inputs returned a state with fewer nodes and fewer inputs,
\* dropping a placeholder that Delta debugging had made.
C20_Witness ==
    /\ Accepted("Remove unused inputs")
    /\ Len(failing_state.graph) < Len(last.old.graph)
    /\ Len(failing_state.inps) < Len(last.old.inps)
    /\ ConvertedIn(fail_f, last.old.graph) # {}

====
